---- MODULE Spec2Model ----
(***************************************************************************)
(* Model of the persistence hooks of markdown-notepad:                     *)
(*   useDocuments   (multi-document store with a debounced save)           *)
(*   useLocalStorage (single value with a debounced save)                  *)
(*                                                                         *)
(* Time is a logical clock `now` (Date.now()); one tick is one unit of the *)
(* debounce delay.  Timers are the browser's setTimeout table: a set of    *)
(* armed timers, each with an id, a deadline and the value its callback    *)
(* closed over.  A timer never fires before its deadline, it may fire      *)
(* late: the clock may pass a deadline while the timer is pending.         *)
(*                                                                         *)
(* React: the callbacks of a hook read the state captured by the last      *)
(* render (renderedActiveId); the state setters queue a change, and the    *)
(* render that follows applies the queued changes in the order they were   *)
(* made.  documents, activeDocumentId, status and error hold the state     *)
(* with the values set so far applied; the functions passed to             *)
(* setDocuments (updaters) that React has not run yet wait in `queue`.     *)
(* React runs an updater inside the call when no update is queued on the   *)
(* component, and in the next render otherwise; both happen.  All an       *)
(* updater does (saveDocuments, a new id, setActiveDocumentId) happens     *)
(* when it runs: in the render, after what the rest of the handler did.    *)
(* The callbacks exist from the first render on: they can be called before *)
(* the mount effect has run, between the mount effect and the render it    *)
(* causes, and after the unmount, when the state setters change nothing    *)
(* and only an updater React runs at once still arms its timer.  A due     *)
(* timer may run its callback between a call and the render of the call.   *)
(***************************************************************************)
EXTENDS Integers, Sequences, FiniteSets, TLC

\* ---------------------------------------------------------------- bounds
\* user operations (calls of the hook's callbacks) in one run
MaxOps == 2
\* user operations in a run that explores every stored snapshot
LoadOps == 1
\* last value of the clock
MaxTime == 4
\* the debounceMs option, in clock ticks
DebounceMs == 2
\* longest stored snapshot read at load
MaxStored == 2

\* ---------------------------------------------------------------- values
NullId == 0
Null == "null"

STORAGE_KEY == "markdown-notepad-documents"

DEFAULT_DOCUMENT_NAME ==
  <<"U","n","t","i","t","l","e","d"," ","D","o","c","u","m","e","n","t">>

WelcomeName == <<"W","e","l","c","o","m","e">>

\* characters String.prototype.trim removes (WhiteSpace and LineTerminator
\* of ECMAScript): tab, line feed, carriage return, form feed and space, and
\* by code point the ones a TLA+ string cannot hold: U+000B, U+00A0, U+FEFF,
\* the space separators and the line and paragraph separators
NBSP == "u00A0"
BOM == "uFEFF"
WhiteSpace ==
  { " ", "\t", "\n", "\r", "\f", "u000B", NBSP, BOM,
    "u1680", "u2000", "u2001", "u2002", "u2003", "u2004", "u2005", "u2006",
    "u2007", "u2008", "u2009", "u200A", "u2028", "u2029", "u202F", "u205F",
    "u3000" }

\* names a caller passes: "", " \t", "\t N \n"
BlankName == << " ", "\t" >>
PaddedName == << "\t", " ", "N", " ", "\n" >>
NameInputs == { <<>>, BlankName, PaddedName }
\* the optional name argument of createDocument: <<>> is undefined
NameArgs == { <<>> } \cup { <<n>> : n \in NameInputs }
ContentInputs == { "x" }

\* ids found in a stored snapshot; generated ids are disjoint from them
StoredIds == {1, 2}
\* the documents of a stored snapshot: an id may repeat, an updatedAt may
\* repeat, and an updatedAt may lie before or after the clock at load
StoredDoc(i, t) == [id |-> i, name |-> <<"N">>, content |-> "", updatedAt |-> t]
StoredDocs == { StoredDoc(1, 0), StoredDoc(1, 2), StoredDoc(2, 2) }

\* String.prototype.trim on a sequence of characters
RECURSIVE TrimLeft(_)
TrimLeft(s) ==
  IF s # <<>> /\ Head(s) \in WhiteSpace THEN TrimLeft(Tail(s)) ELSE s
RECURSIVE TrimRight(_)
TrimRight(s) ==
  IF s # <<>> /\ s[Len(s)] \in WhiteSpace
    THEN TrimRight(SubSeq(s, 1, Len(s) - 1))
    ELSE s
\* a trim that removes nothing
TrimNothing(s) == s
Trim(s) == TrimRight(TrimLeft(s))

\* ---------------------------------------------------------------- storage
\* The text under a localStorage key: absent (getItem gives null), the empty
\* string, text JSON.parse rejects, or the JSON text of an array of documents.
\* (JSON text of anything but an array of documents is not modelled.)
Absent == [kind |-> "null"]
EmptyText == [kind |-> "empty"]
Garbage == [kind |-> "garbage"]
JSON_stringify(docs) == [kind |-> "json", value |-> docs]
\* JSON.parse: ok with the array, or a SyntaxError
JSON_parse(text) ==
  IF text.kind = "json" THEN [ok |-> TRUE, value |-> text.value]
  ELSE [ok |-> FALSE, value |-> <<>>]
\* `if (stored)`: null and "" are falsy
Truthy(text) == text.kind \notin {"null", "empty"}

RECURSIVE SeqsUpTo(_, _)
SeqsUpTo(S, n) ==
  IF n = 0 THEN { <<>> }
  ELSE LET shorter == SeqsUpTo(S, n - 1)
       IN shorter \cup { Append(s, x) : s \in { t \in shorter : Len(t) = n - 1 }, x \in S }

StoredValues ==
  { Absent, EmptyText, Garbage } \cup
  { JSON_stringify(s) : s \in SeqsUpTo(StoredDocs, MaxStored) }

\* the stored values the runs with MaxOps operations start from: nothing
\* stored, unparsable text, "[]", and a snapshot of two documents
TwoDocs == << StoredDoc(1, 0), StoredDoc(2, 0) >>
CoreStoredValues ==
  { Absent, Garbage, JSON_stringify(<<>>), JSON_stringify(TwoDocs) }

\* outcome of localStorage.setItem
SetItemOutcomes == { "ok", "QuotaExceededError", "Error" }

VARIABLES
  documents,          \* useDocuments: documents state, with the updates React has run
  activeDocumentId,   \* useDocuments: activeDocumentId state (current)
  renderedActiveId,   \* activeDocumentId as captured by the callbacks of the last render
  updateQueued,       \* a state update of useDocuments is queued since the last render
  queue,              \* the updates of documents React has not run yet, in call order
  status,             \* useDocuments: status state
  error,              \* useDocuments: error state
  debounceTimeoutRef, \* useDocuments: debounceTimeoutRef.current (0 is null)
  timers,             \* armed timers of useDocuments: [id, deadline, docs]
  storage,            \* localStorage[STORAGE_KEY]
  phase,              \* "absent" (hook not rendered), "init" (before the load effect), "mounted", "unmounted"
  now,                \* Date.now()
  nextId,             \* ids generated so far
  nextTimer,          \* timer ids handed out so far
  budget,             \* user operations left
  lastOp,             \* history: the last step taken and the state it started from
  lastMutationAt,     \* history: clock of the last saveDocuments call (-1: none)
  flushes,            \* history: setItem calls since the last saveDocuments call
  burst,              \* history: saveDocuments calls, each less than debounceMs after the one before
  lsValue,            \* useLocalStorage: value state
  lsSaveStatus,       \* useLocalStorage: saveStatus state
  lsError,            \* useLocalStorage: error state
  lsTimeoutRef,       \* useLocalStorage: debounceTimeoutRef.current (0 is null)
  lsTimers,           \* armed timers of useLocalStorage: [id, deadline, value]
  lsStorage,          \* localStorage[key]: <<>> when absent, <<text>> when present
  lsPhase,            \* "absent" (hook not rendered), "init", "mounted", "unmounted"
  lsLastSetAt,        \* history: clock of the last setValue call (-1: none)
  lsFlushes,          \* history: setItem calls since the last setValue call
  theme,              \* useTheme: theme state (current)
  renderedTheme,      \* theme of the last render, the one the effects have seen
  defaultTheme,       \* useTheme: the defaultTheme option
  darkClass,          \* document.documentElement has the class 'dark'
  thStorage,          \* localStorage[storageKey] of useTheme: <<>> when absent, <<text>> when present
  matches,            \* matchMedia('(prefers-color-scheme: dark)').matches
  matchMediaOk,       \* window.matchMedia exists and does not throw
  thPhase,            \* "absent" (hook not rendered), "rendered" (effects not run yet), "mounted", "unmounted"
  storedAtLoad,       \* history: localStorage[storageKey] when the hook was constructed
  userSet             \* history: toggleTheme, setLightTheme or setDarkTheme was called

\* the state of useLocalStorage
lsVars == << lsValue, lsSaveStatus, lsError, lsTimeoutRef, lsTimers, lsStorage,
             lsPhase, lsLastSetAt, lsFlushes >>

\* the state of useTheme
thVars == << theme, renderedTheme, defaultTheme, darkClass, thStorage, matches,
             matchMediaOk, thPhase, storedAtLoad, userSet >>

\* the state of useDocuments
docVars == << documents, activeDocumentId, renderedActiveId, updateQueued,
              queue, status, error, debounceTimeoutRef, timers, storage,
              phase, nextId, lastMutationAt, flushes, burst >>

vars == << documents, activeDocumentId, renderedActiveId, updateQueued,
           queue, status, error, debounceTimeoutRef, timers, storage,
           phase, now, nextId, nextTimer, budget, lastOp, lastMutationAt,
           flushes, burst, lsVars, thVars >>

\* ---------------------------------------------------------------- helpers
\* generateId: `${Date.now()}-${random}`; the random suffix is taken to
\* never repeat, so the n-th generated id is a new id
generateId(n) == Cardinality(StoredIds) + n + 1

\* stands for the id of a document an updater that has not run yet will
\* make: generateId is called when the updater runs
PendingId == -1

createNewDocument(nameArg, id, t) ==
  [ id |-> id,
    name |-> IF nameArg = <<>> THEN DEFAULT_DOCUMENT_NAME ELSE nameArg[1],
    content |-> "",
    updatedAt |-> t ]

\* a clearTimeout that cancels nothing
clearTimeoutNothing(ts, ref) == ts
clearTimeout(ts, ref) == { t \in ts : t.id # ref }

setTimeout(ts, id, docs, deadline) ==
  ts \cup { [id |-> id, deadline |-> deadline, docs |-> docs] }

\* the timer table after saveDocuments(docs)
saveDocumentsTimers(ts, ref, id, docs, t) ==
  setTimeout(IF ref # 0 THEN clearTimeout(ts, ref) ELSE ts, id, docs, t + DebounceMs)

\* the timer table after saveDocuments was called with each collection of
\* `saves` in turn, `id` being the last timer id handed out before
RECURSIVE savesTimers(_, _, _, _, _)
savesTimers(ts, ref, id, saves, t) ==
  IF saves = <<>> THEN ts
  ELSE savesTimers(saveDocumentsTimers(ts, ref, id + 1, Head(saves), t),
                   id + 1, id + 1, Tail(saves), t)

\* parsed.reduce((latest, doc) => doc.updatedAt > latest.updatedAt ? doc : latest)
RECURSIVE mostRecentFrom(_, _, _)
mostRecentFrom(parsed, i, latest) ==
  IF i > Len(parsed) THEN latest
  ELSE mostRecentFrom(parsed, i + 1,
         IF parsed[i].updatedAt > latest.updatedAt THEN parsed[i] ELSE latest)
\* a reduce that prefers the later of two equally recent documents
mostRecentLast(parsed) ==
  parsed[CHOOSE i \in 1..Len(parsed) :
           /\ \A j \in 1..Len(parsed) : parsed[j].updatedAt <= parsed[i].updatedAt
           /\ \A j \in (i + 1)..Len(parsed) :
                parsed[j].updatedAt < parsed[i].updatedAt]
mostRecent(parsed) == mostRecentFrom(parsed, 2, parsed[1])

Ids(docs) == { docs[i].id : i \in 1..Len(docs) }

\* ---------------------------------------------------------------- updaters
\* createDocument adding the new document at the end
createdAppends(prev, newDoc) == prev \o <<newDoc>>

\* the updater of createDocument: [newDoc, ...prev]
created(prev, newDoc) == <<newDoc>> \o prev

\* renameDocument storing newName as given
renamedNoTrim(docs, id, newName, t) ==
  [ i \in 1..Len(docs) |->
      IF docs[i].id = id
        THEN [ docs[i] EXCEPT !.name = newName, !.updatedAt = t ]
        ELSE docs[i] ]

\* the updater of renameDocument(id, newName)
renamed(docs, id, newName, t) ==
  [ i \in 1..Len(docs) |->
      IF docs[i].id = id
        THEN [ docs[i] EXCEPT !.name = Trim(newName), !.updatedAt = t ]
        ELSE docs[i] ]

\* deleteDocument without the document created when nothing is left
deletedNoRefill(docs, id, active, rendered, freshId, t) ==
  LET updated == SelectSeq(docs, LAMBDA d : d.id # id)
  IN IF Len(updated) > 0 /\ rendered = id
       THEN [ docs |-> updated, active |-> updated[1].id, made |-> 0 ]
       ELSE [ docs |-> updated, active |-> active, made |-> 0 ]

\* deleteDocument that leaves the active id alone when the active document
\* is removed and others remain
deletedKeepsActive(docs, id, active, rendered, freshId, t) ==
  LET updated == SelectSeq(docs, LAMBDA d : d.id # id)
  IN IF Len(updated) = 0
       THEN LET newDoc == createNewDocument(<<>>, freshId, t)
            IN [ docs |-> <<newDoc>>, active |-> newDoc.id, made |-> 1 ]
       ELSE [ docs |-> updated, active |-> active, made |-> 0 ]

\* deleteDocument that creates the replacement document without making it
\* active
deletedRefillInactive(docs, id, active, rendered, freshId, t) ==
  LET updated == SelectSeq(docs, LAMBDA d : d.id # id)
  IN IF Len(updated) = 0
       THEN LET newDoc == createNewDocument(<<>>, freshId, t)
            IN [ docs |-> <<newDoc>>, active |-> active, made |-> 1 ]
     ELSE IF rendered = id
       THEN [ docs |-> updated, active |-> updated[1].id, made |-> 0 ]
     ELSE [ docs |-> updated, active |-> active, made |-> 0 ]

\* the updater of deleteDocument(id): the collection it returns and the id
\* it passes to setActiveDocumentId, `active` when it does not call it;
\* `rendered` is the activeDocumentId the callback closed over
deleted(docs, id, active, rendered, freshId, t) ==
  LET updated == SelectSeq(docs, LAMBDA d : d.id # id)
  IN IF Len(updated) = 0
       THEN LET newDoc == createNewDocument(<<>>, freshId, t)
            IN [ docs |-> <<newDoc>>, active |-> newDoc.id, made |-> 1 ]
     ELSE IF rendered = id
       THEN [ docs |-> updated, active |-> updated[1].id, made |-> 0 ]
     ELSE [ docs |-> updated, active |-> active, made |-> 0 ]

\* updateDocumentContent writing the content into every document
contentUpdatedAll(docs, rendered, content, t) ==
  [ i \in 1..Len(docs) |->
      [ docs[i] EXCEPT !.content = content, !.updatedAt = t ] ]

\* the updater of updateDocumentContent(content); `rendered` is the
\* activeDocumentId the callback closed over
contentUpdated(docs, rendered, content, t) ==
  [ i \in 1..Len(docs) |->
      IF docs[i].id = rendered
        THEN [ docs[i] EXCEPT !.content = content, !.updatedAt = t ]
        ELSE docs[i] ]

\* an update of documents that waits for the render: the updater of the
\* callback `op` called with `id` and `arg` (the new document of
\* createDocument, the name, the content), or, for "setDocuments", the
\* collection `arg` the mount effect set after updaters were queued
QueuedUpdate(op, id, arg) == [ op |-> op, id |-> id, arg |-> arg ]

\* what React gets when it runs the queued update u on prev at time t: the
\* collection, the id passed to setActiveDocumentId (NullId: no call), the
\* number of ids generated, and the collections passed to saveDocuments
updated(u, prev, rendered, freshId, t) ==
  CASE u.op = "createDocument" ->
         LET docs == created(prev, u.arg)
         IN [ docs |-> docs, active |-> NullId, made |-> 0, saves |-> <<docs>> ]
    [] u.op = "renameDocument" ->
         LET docs == renamed(prev, u.id, u.arg, t)
         IN [ docs |-> docs, active |-> NullId, made |-> 0, saves |-> <<docs>> ]
    [] u.op = "deleteDocument" ->
         LET r == deleted(prev, u.id, NullId, rendered, freshId, t)
         IN [ docs |-> r.docs, active |-> r.active, made |-> r.made,
              saves |-> <<r.docs>> ]
    [] u.op = "updateDocumentContent" ->
         LET docs == contentUpdated(prev, u.id, u.arg, t)
         IN [ docs |-> docs, active |-> NullId, made |-> 0, saves |-> <<docs>> ]
    [] u.op = "setDocuments" ->
         [ docs |-> u.arg, active |-> NullId, made |-> 0, saves |-> <<>> ]

\* nothing has run yet: the collection the queued updates start from
NothingRun(docs) ==
  [ docs |-> docs, active |-> NullId, made |-> 0, saves |-> <<>> ]

\* React runs the queued updates q in order, each on the collection the one
\* before returned; n ids were generated before.  With `preview` the ids of
\* the documents made are left open (PendingId)
RECURSIVE runQueue(_, _, _, _, _, _)
runQueue(q, acc, rendered, n, t, preview) ==
  IF q = <<>> THEN acc
  ELSE LET freshId == IF preview THEN PendingId ELSE generateId(n + acc.made)
           r == updated(Head(q), acc.docs, rendered, freshId, t)
       IN runQueue(Tail(q),
                   [ docs |-> r.docs,
                     active |-> IF r.active # NullId THEN r.active ELSE acc.active,
                     made |-> acc.made + r.made,
                     saves |-> acc.saves \o r.saves ],
                   rendered, n, t, preview)

\* ---------------------------------------------------------------- state
\* no render is due: no state update is queued
Rendered ==
  /\ renderedActiveId = activeDocumentId
  /\ ~updateQueued
  /\ queue = <<>>

\* the hook is rendered and not unmounted: its state setters work
Alive == phase \in {"init", "mounted"}

\* the collection once the queued updates have run
Pending ==
  IF queue = <<>> THEN documents
  ELSE runQueue(queue, NothingRun(documents), renderedActiveId, nextId, now,
                TRUE).docs

\* history record of a step: the operation, its id argument, its other
\* argument (a name argument, a name, <<content>>, or <<whether the storage
\* read threw>>), and of the state it started from: the rendered active id,
\* the number of documents and the number of documents with another id,
\* counted in the collection the updates made so far give
Op(name, id) ==
  LET docs == Pending
  IN [ op |-> name, id |-> id, rendered |-> renderedActiveId,
       pre |-> Len(docs),
       left |-> Len(SelectSeq(docs, LAMBDA d : d.id # id)),
       outcome |-> "", arg |-> <<>> ]

\* ---------------------------------------------------------------- useDocuments
LoadErrorMessage == "Failed to load documents"
QuotaMessage == "Storage is full. Please delete some documents."
SaveErrorMessage == "Failed to save documents"

\* useDocuments after its first render, before its mount effect, when
\* `rendered`; not part of the run otherwise
Constructed(rendered) ==
  /\ documents = <<>>
  /\ activeDocumentId = NullId
  /\ renderedActiveId = NullId
  /\ updateQueued = FALSE
  /\ queue = <<>>
  /\ status = "saved"
  /\ error = Null
  /\ debounceTimeoutRef = 0
  /\ timers = {}
  /\ phase = IF rendered THEN "init" ELSE "absent"
  /\ now = 1
  /\ nextId = 0
  /\ nextTimer = 0
  /\ lastOp = [ op |-> "construct", id |-> NullId, rendered |-> NullId,
                pre |-> 0, left |-> 0, outcome |-> "", arg |-> <<>> ]
  /\ lastMutationAt = -1
  /\ flushes = 0
  /\ burst = 0

\* useLocalStorage after its first render, before its mount effect, when
\* `rendered`; not part of the run otherwise
lsConstructed(rendered) ==
  /\ lsValue = ""
  /\ lsSaveStatus = "saved"
  /\ lsError = Null
  /\ lsTimeoutRef = 0
  /\ lsTimers = {}
  /\ lsPhase = IF rendered THEN "init" ELSE "absent"
  /\ lsLastSetAt = -1
  /\ lsFlushes = 0

\* useTheme is not part of the run
thAbsent ==
  /\ theme = "light"
  /\ renderedTheme = "light"
  /\ defaultTheme = "light"
  /\ darkClass = FALSE
  /\ thStorage = <<>>
  /\ matches = FALSE
  /\ matchMediaOk = TRUE
  /\ thPhase = "absent"
  /\ storedAtLoad = <<>>
  /\ userSet = FALSE

Init ==
  /\ Constructed(TRUE)
  /\ storage \in CoreStoredValues
  /\ budget = MaxOps
  /\ lsConstructed(FALSE)
  /\ thAbsent
  /\ lsStorage = <<>>

InitLoad ==
  /\ Constructed(TRUE)
  /\ storage \in StoredValues
  /\ budget = LoadOps
  /\ lsConstructed(FALSE)
  /\ thAbsent
  /\ lsStorage = <<>>

\* a load effect whose catch branch creates no fallback document
loadResultNoFallback(stored, getItemThrows, id, t) ==
  LET welcome == createNewDocument(<<WelcomeName>>, id, t)
      fresh == [ docs |-> <<welcome>>, active |-> welcome.id, made |-> 1 ]
      none == [ docs |-> <<>>, active |-> NullId, made |-> 0, caught |-> TRUE ]
  IN IF getItemThrows
       THEN none
     ELSE IF Truthy(stored)
       THEN LET parsed == JSON_parse(stored)
            IN IF ~parsed.ok
                 THEN none
               ELSE [ docs |-> parsed.value,
                      active |-> IF Len(parsed.value) > 0
                                   THEN mostRecent(parsed.value).id
                                   ELSE NullId,
                      made |-> 0, caught |-> FALSE ]
     ELSE fresh @@ [ caught |-> FALSE ]

\* the documents and the active id the load effect sets (NullId: it does
\* not call setActiveDocumentId), and whether it took the catch branch
loadResult(stored, getItemThrows, id, t) ==
  LET welcome == createNewDocument(<<WelcomeName>>, id, t)
      fresh == [ docs |-> <<welcome>>, active |-> welcome.id, made |-> 1 ]
  IN IF getItemThrows
       THEN fresh @@ [ caught |-> TRUE ]
     ELSE IF Truthy(stored)
       THEN LET parsed == JSON_parse(stored)
            IN IF ~parsed.ok
                 THEN fresh @@ [ caught |-> TRUE ]
               ELSE [ docs |-> parsed.value,
                      active |-> IF Len(parsed.value) > 0
                                   THEN mostRecent(parsed.value).id
                                   ELSE NullId,
                      made |-> 0, caught |-> FALSE ]
     ELSE fresh @@ [ caught |-> FALSE ]

\* the state setters of the mount effect: setDocuments(docs) comes after the
\* updaters that wait for the render, setActiveDocumentId and setError
\* replace what was set before
loadSets(r, getItemThrows) ==
  /\ IF queue = <<>>
       THEN /\ documents' = r.docs
            /\ UNCHANGED queue
       ELSE /\ queue' = Append(queue, QueuedUpdate("setDocuments", NullId, r.docs))
            /\ UNCHANGED documents
  /\ activeDocumentId' = IF r.active # NullId THEN r.active ELSE activeDocumentId
  /\ error' = IF r.caught THEN LoadErrorMessage ELSE error
  /\ updateQueued' = TRUE
  /\ nextId' = nextId + r.made
  /\ lastOp' = [ Op("load", NullId) EXCEPT
                   !.outcome = IF r.caught THEN "caught" ELSE "read",
                   !.arg = << getItemThrows >> ]

\* a mount effect that schedules a write of what it loaded
LoadDocumentsSaves(getItemThrows) ==
  /\ phase = "init"
  /\ LET r == loadResult(storage, getItemThrows, generateId(nextId), now)
     IN /\ loadSets(r, getItemThrows)
        /\ status' = "saving"
        /\ timers' = saveDocumentsTimers(timers, debounceTimeoutRef,
                                         nextTimer + 1, r.docs, now)
        /\ debounceTimeoutRef' = nextTimer + 1
        /\ nextTimer' = nextTimer + 1
        /\ lastMutationAt' = now
        /\ flushes' = 0
        /\ burst' = 1
  /\ phase' = "mounted"
  /\ UNCHANGED << renderedActiveId, storage, now, budget >>
  /\ UNCHANGED lsVars
  /\ UNCHANGED thVars

\* the mount effect: it reads the stored snapshot once and queues the state
\* it found; the render that follows shows it
LoadDocuments(getItemThrows) ==
  /\ phase = "init"
  /\ LET r == loadResult(storage, getItemThrows, generateId(nextId), now)
     IN loadSets(r, getItemThrows)
  /\ phase' = "mounted"
  /\ UNCHANGED << renderedActiveId, status, debounceTimeoutRef, timers, storage,
                  now, nextTimer, budget, lastMutationAt, flushes, burst >>
  /\ UNCHANGED lsVars
  /\ UNCHANGED thVars

\* saveDocuments without setStatus('saving')
saveDocumentsKeepsStatus(docs) ==
  /\ status' = status
  /\ timers' = saveDocumentsTimers(timers, debounceTimeoutRef, nextTimer + 1, docs, now)
  /\ debounceTimeoutRef' = nextTimer + 1
  /\ nextTimer' = nextTimer + 1
  /\ lastMutationAt' = now
  /\ flushes' = 0
  /\ burst' = IF lastMutationAt >= 0 /\ now < lastMutationAt + DebounceMs
                THEN burst + 1 ELSE 1

\* saveDocuments(docs): status (setStatus changes nothing after the
\* unmount), the timer table and the ref
saveDocuments(docs) ==
  /\ status' = IF Alive THEN "saving" ELSE status
  /\ timers' = saveDocumentsTimers(timers, debounceTimeoutRef, nextTimer + 1, docs, now)
  /\ debounceTimeoutRef' = nextTimer + 1
  /\ nextTimer' = nextTimer + 1
  /\ lastMutationAt' = now
  /\ flushes' = 0
  /\ burst' = IF lastMutationAt >= 0 /\ now < lastMutationAt + DebounceMs
                THEN burst + 1 ELSE 1

\* a call of one of the returned callbacks: the component has them from the
\* first render on, and whoever kept one can call it after the unmount
UserCall ==
  /\ phase \in {"init", "mounted", "unmounted"}
  /\ budget > 0
  /\ budget' = budget - 1

\* whether the updater runs in the call (`eager`) or waits for the next
\* render: React runs it at once only when no update is queued
UpdaterRuns(eager) == eager => ~updateQueued

\* lastOp.outcome of a call whose updater ran in the call, or was queued
How(eager) == IF eager THEN "ran" ELSE "queued"

\* no saveDocuments call is made
noSave ==
  UNCHANGED << status, timers, debounceTimeoutRef, nextTimer, lastMutationAt,
               flushes, burst >>

\* setDocuments(updater) where the updater returns `docs`: run in the call,
\* it calls saveDocuments(docs) and React keeps what it returned; else it
\* waits in the queue as update u.  After the unmount React keeps and queues
\* nothing
setDocuments(eager, docs, u) ==
  /\ IF eager
       THEN /\ saveDocuments(docs)
            /\ documents' = IF Alive THEN docs ELSE documents
            /\ UNCHANGED queue
       ELSE /\ noSave
            /\ queue' = IF Alive THEN Append(queue, u) ELSE queue
            /\ UNCHANGED documents
  /\ updateQueued' = TRUE

\* setActiveDocument that also schedules a write
setActiveDocumentSaves(id) ==
  /\ UserCall
  /\ activeDocumentId' = IF Alive THEN id ELSE activeDocumentId
  /\ updateQueued' = (updateQueued \/ id # activeDocumentId)
  /\ saveDocuments(documents)
  /\ lastOp' = Op("setActiveDocument", id)
  /\ UNCHANGED << documents, renderedActiveId, queue, error, storage, phase, now,
                  nextId >>
  /\ UNCHANGED lsVars
  /\ UNCHANGED thVars

\* setActiveDocument(id): setActiveDocumentId(id); a value equal to the
\* state queues nothing
setActiveDocument(id) ==
  /\ UserCall
  /\ activeDocumentId' = IF Alive THEN id ELSE activeDocumentId
  /\ updateQueued' = (updateQueued \/ id # activeDocumentId)
  /\ lastOp' = Op("setActiveDocument", id)
  /\ UNCHANGED << documents, renderedActiveId, queue, status, error,
                  debounceTimeoutRef, timers, storage, phase, now, nextId,
                  nextTimer, lastMutationAt, flushes, burst >>
  /\ UNCHANGED lsVars
  /\ UNCHANGED thVars

\* createDocument(name): the document is made in the call, the updater puts
\* it first and schedules the write, setActiveDocumentId(newDoc.id) follows;
\* lastOp.id records the id it returns
createDocument(nameArg, eager) ==
  /\ UserCall
  /\ UpdaterRuns(eager)
  /\ LET newDoc == createNewDocument(nameArg, generateId(nextId), now)
     IN /\ setDocuments(eager, created(documents, newDoc),
                        QueuedUpdate("createDocument", newDoc.id, newDoc))
        /\ activeDocumentId' = IF Alive THEN newDoc.id ELSE activeDocumentId
        /\ lastOp' = [ Op("createDocument", newDoc.id) EXCEPT
                       !.arg = nameArg, !.outcome = How(eager) ]
  /\ nextId' = nextId + 1
  /\ UNCHANGED << renderedActiveId, error, storage, phase, now >>
  /\ UNCHANGED lsVars
  /\ UNCHANGED thVars

\* renameDocument(id, newName): nothing for a name of white space, else the
\* updater renames and schedules the write
renameDocument(id, newName, eager) ==
  /\ UserCall
  /\ UpdaterRuns(eager)
  /\ IF Trim(newName) = <<>>
       THEN /\ noSave
            /\ lastOp' = [ Op("renameDocument", id) EXCEPT !.arg = newName ]
            /\ UNCHANGED << documents, queue, updateQueued >>
       ELSE /\ setDocuments(eager, renamed(documents, id, newName, now),
                            QueuedUpdate("renameDocument", id, newName))
            /\ lastOp' = [ Op("renameDocument", id) EXCEPT
                           !.arg = newName, !.outcome = How(eager) ]
  /\ UNCHANGED << activeDocumentId, renderedActiveId, error, storage, phase,
                  now, nextId >>
  /\ UNCHANGED lsVars
  /\ UNCHANGED thVars

\* deleteDocument(id): everything happens in the updater.  Run in the call,
\* its setActiveDocumentId precedes the ones the handler makes later; run in
\* the render, it follows them, and the replacement document is made then
deleteDocument(id, eager) ==
  /\ UserCall
  /\ UpdaterRuns(eager)
  /\ LET r == deleted(documents, id, NullId, renderedActiveId,
                      generateId(nextId), now)
     IN /\ setDocuments(eager, r.docs, QueuedUpdate("deleteDocument", id, <<>>))
        /\ activeDocumentId' = IF eager /\ Alive /\ r.active # NullId
                                 THEN r.active ELSE activeDocumentId
        /\ nextId' = IF eager THEN nextId + r.made ELSE nextId
  /\ lastOp' = [ Op("deleteDocument", id) EXCEPT !.outcome = How(eager) ]
  /\ UNCHANGED << renderedActiveId, error, storage, phase, now >>
  /\ UNCHANGED lsVars
  /\ UNCHANGED thVars

\* updateDocumentContent(content): nothing when the callback closed over no
\* active id, else the updater sets the content and schedules the write
updateDocumentContent(content, eager) ==
  /\ UserCall
  /\ UpdaterRuns(eager)
  /\ IF renderedActiveId = NullId
       THEN /\ noSave
            /\ lastOp' = [ Op("updateDocumentContent", renderedActiveId) EXCEPT
                           !.arg = << content >> ]
            /\ UNCHANGED << documents, queue, updateQueued >>
       ELSE /\ setDocuments(eager,
                            contentUpdated(documents, renderedActiveId, content, now),
                            QueuedUpdate("updateDocumentContent",
                                         renderedActiveId, content))
            /\ lastOp' = [ Op("updateDocumentContent", renderedActiveId) EXCEPT
                           !.arg = << content >>, !.outcome = How(eager) ]
  /\ UNCHANGED << activeDocumentId, renderedActiveId, error, storage, phase,
                  now, nextId >>
  /\ UNCHANGED lsVars
  /\ UNCHANGED thVars

\* React renders after the mount effect and after an event handler: the
\* queued updates of documents run in order (each updater calls
\* saveDocuments, the one of deleteDocument may make a document and call
\* setActiveDocumentId, which comes after the calls of the handler), and the
\* callbacks are re-created with the activeDocumentId of this render
Render ==
  /\ phase = "mounted"
  /\ ~Rendered
  /\ LET r == runQueue(queue, NothingRun(documents), renderedActiveId, nextId,
                       now, FALSE)
         active == IF r.active # NullId THEN r.active ELSE activeDocumentId
         k == Len(r.saves)
     IN /\ documents' = r.docs
        /\ nextId' = nextId + r.made
        /\ activeDocumentId' = active
        /\ renderedActiveId' = active
        /\ IF k = 0
             THEN noSave
             ELSE /\ status' = "saving"
                  /\ timers' = savesTimers(timers, debounceTimeoutRef, nextTimer,
                                           r.saves, now)
                  /\ debounceTimeoutRef' = nextTimer + k
                  /\ nextTimer' = nextTimer + k
                  /\ lastMutationAt' = now
                  /\ flushes' = 0
                  /\ burst' = k - 1 +
                       (IF lastMutationAt >= 0 /\ now < lastMutationAt + DebounceMs
                          THEN burst + 1 ELSE 1)
  /\ queue' = <<>>
  /\ updateQueued' = FALSE
  /\ UNCHANGED << error, storage, phase, now, budget, lastOp >>
  /\ UNCHANGED lsVars
  /\ UNCHANGED thVars

\* a catch branch that does not set the status
flushStatusNoError(outcome) == IF outcome = "ok" THEN "saved" ELSE "saving"

\* a catch branch that does not tell a full storage from other failures
flushErrorGeneric(outcome) == IF outcome = "ok" THEN Null ELSE SaveErrorMessage

\* status and error after the timer callback of saveDocuments
flushStatus(outcome) == IF outcome = "ok" THEN "saved" ELSE "error"
flushError(outcome) ==
  IF outcome = "ok" THEN Null
  ELSE IF outcome = "QuotaExceededError" THEN QuotaMessage
  ELSE SaveErrorMessage

\* a callback that arms a retry timer when the write fails
firedTimersRetry(ts, t, outcome) ==
  IF outcome = "ok" THEN ts \ {t}
  ELSE (ts \ {t}) \cup { [ t EXCEPT !.deadline = t.deadline + DebounceMs ] }

\* the timer table after timer t ran its callback: neither branch of the
\* callback arms a timer
firedTimers(ts, t, outcome) == ts \ {t}

\* a timer whose deadline has passed runs its callback, whether or not the
\* render of the last handler has happened: localStorage.setItem(STORAGE_KEY,
\* JSON.stringify(docs)); the state setters change nothing after the unmount
TimerFired(t, outcome) ==
  /\ t \in timers
  /\ now >= t.deadline
  /\ timers' = firedTimers(timers, t, outcome)
  /\ storage' = IF outcome = "ok" THEN JSON_stringify(t.docs) ELSE storage
  /\ IF Alive
       THEN /\ status' = flushStatus(outcome)
            /\ error' = flushError(outcome)
       ELSE UNCHANGED << status, error >>
  /\ flushes' = flushes + 1
  /\ lastOp' = [ Op("timerFired", NullId) EXCEPT !.outcome = outcome ]
  /\ UNCHANGED << documents, activeDocumentId, renderedActiveId, updateQueued,
                  queue, debounceTimeoutRef, phase, now, nextId, nextTimer,
                  budget, lastMutationAt, burst >>
  /\ UNCHANGED lsVars
  /\ UNCHANGED thVars

\* a hook without the cleanup effect
unmountTimersLeak(ts, ref) == ts

\* the cleanup effect
unmountTimers(ts, ref) == IF ref # 0 THEN clearTimeout(ts, ref) ELSE ts

Unmount ==
  /\ phase = "mounted"
  /\ Rendered
  /\ phase' = "unmounted"
  /\ timers' = unmountTimers(timers, debounceTimeoutRef)
  /\ lastOp' = Op("unmount", NullId)
  /\ UNCHANGED << documents, activeDocumentId, renderedActiveId, updateQueued,
                  queue, status, error, debounceTimeoutRef, storage, now,
                  nextId, nextTimer, budget, lastMutationAt, flushes, burst >>
  /\ UNCHANGED lsVars
  /\ UNCHANGED thVars

\* time passes, whether or not a timer is due (setTimeout gives the least
\* delay); the effects of a mount and the render after an event handler run
\* before the clock moves on
Tick ==
  /\ phase # "init"
  /\ phase # "mounted" \/ Rendered
  /\ lsPhase # "init"
  /\ now < MaxTime
  /\ now' = now + 1
  /\ UNCHANGED << documents, activeDocumentId, renderedActiveId, updateQueued,
                  queue, status, error, debounceTimeoutRef, timers, storage,
                  phase, nextId, nextTimer, budget, lastOp, lastMutationAt,
                  flushes, burst >>
  /\ UNCHANGED lsVars
  /\ UNCHANGED thVars

\* ids a caller may pass: the id of every document it was given (by the
\* hook or by createDocument) and one no document has
NoSuchId == generateId(MaxOps + LoadOps + 1)
CallIds == (Ids(Pending) \ { PendingId }) \cup { NoSuchId }

\* every operation of useDocuments; documents are created with the default
\* name and renamed to "\t N \n"
Next ==
  \/ \E b \in BOOLEAN : LoadDocuments(b)
  \/ \E id \in CallIds : setActiveDocument(id)
  \/ \E e \in BOOLEAN : createDocument(<<>>, e)
  \/ \E id \in CallIds, e \in BOOLEAN : renameDocument(id, PaddedName, e)
  \/ \E id \in CallIds, e \in BOOLEAN : deleteDocument(id, e)
  \/ \E c \in ContentInputs, e \in BOOLEAN : updateDocumentContent(c, e)
  \/ Render
  \/ \E t \in timers, o \in SetItemOutcomes : TimerFired(t, o)
  \/ Unmount
  \/ Tick

Spec == Init /\ [][Next]_vars

\* every operation of useDocuments, with every name
NextNames ==
  \/ \E b \in BOOLEAN : LoadDocuments(b)
  \/ \E id \in CallIds : setActiveDocument(id)
  \/ \E n \in NameArgs, e \in BOOLEAN : createDocument(n, e)
  \/ \E id \in CallIds, n \in NameInputs, e \in BOOLEAN : renameDocument(id, n, e)
  \/ \E id \in CallIds, e \in BOOLEAN : deleteDocument(id, e)
  \/ \E c \in ContentInputs, e \in BOOLEAN : updateDocumentContent(c, e)
  \/ Render
  \/ \E t \in timers, o \in SetItemOutcomes : TimerFired(t, o)
  \/ Unmount
  \/ Tick

\* useDocuments constructed with nothing stored
InitNames ==
  /\ Constructed(TRUE)
  /\ storage = Absent
  /\ budget = MaxOps
  /\ lsConstructed(FALSE)
  /\ thAbsent
  /\ lsStorage = <<>>

SpecNames == InitNames /\ [][NextNames]_vars

SpecLoad == InitLoad /\ [][Next]_vars

\* ---------------------------------------------------------------- useLocalStorage
LsLoadErrorMessage == "Failed to load saved content"
LsQuotaMessage == "Storage is full. Please clear some space."
LsSaveErrorMessage == "Failed to save content"
LsClearErrorMessage == "Failed to clear storage"

ValueInputs == { "a" }
LsStoredValues == { <<>>, <<"s">> }

LsOp(name, outcome) ==
  [ op |-> name, id |-> NullId, rendered |-> NullId, pre |-> 0, left |-> 0,
    outcome |-> outcome, arg |-> <<>> ]

\* the mount effect: read the stored value once
lsLoad(getItemThrows) ==
  /\ lsPhase = "init"
  /\ lsPhase' = "mounted"
  /\ IF getItemThrows
       THEN /\ lsError' = LsLoadErrorMessage
            /\ UNCHANGED lsValue
       ELSE /\ lsValue' = IF lsStorage # <<>> THEN lsStorage[1] ELSE lsValue
            /\ UNCHANGED lsError
  /\ lastOp' = LsOp("lsLoad", IF getItemThrows THEN "caught" ELSE "read")
  /\ UNCHANGED << lsSaveStatus, lsTimeoutRef, lsTimers, lsStorage, lsLastSetAt,
                  lsFlushes, now, nextTimer, budget >>
  /\ UNCHANGED docVars
  /\ UNCHANGED thVars

\* the hook is rendered and not unmounted: its state setters work
lsAlive == lsPhase \in {"init", "mounted"}

\* a call of setValue or clear: the component has the callbacks from the
\* first render on, and they stay callable after the unmount, when the state
\* setters change nothing
LsUserCall ==
  /\ lsPhase \in {"init", "mounted", "unmounted"}
  /\ budget > 0
  /\ budget' = budget - 1

lsSetTimeout(ts, id, value, deadline) ==
  ts \cup { [id |-> id, deadline |-> deadline, value |-> value] }

\* the timer table after setValue(newValue)
setValueTimers(ts, ref, id, newValue, t) ==
  lsSetTimeout(IF ref # 0 THEN clearTimeout(ts, ref) ELSE ts, id, newValue,
               t + DebounceMs)

setValue(newValue) ==
  /\ LsUserCall
  /\ IF lsAlive
       THEN /\ lsValue' = newValue
            /\ lsSaveStatus' = "saving"
       ELSE UNCHANGED << lsValue, lsSaveStatus >>
  /\ lsTimers' = setValueTimers(lsTimers, lsTimeoutRef, nextTimer + 1, newValue, now)
  /\ lsTimeoutRef' = nextTimer + 1
  /\ nextTimer' = nextTimer + 1
  /\ lsLastSetAt' = now
  /\ lsFlushes' = 0
  /\ lastOp' = LsOp("setValue", "")
  /\ UNCHANGED << lsError, lsStorage, lsPhase, now >>
  /\ UNCHANGED docVars
  /\ UNCHANGED thVars

lsFlushStatus(outcome) == IF outcome = "ok" THEN "saved" ELSE "error"
lsFlushError(outcome) ==
  IF outcome = "ok" THEN Null
  ELSE IF outcome = "QuotaExceededError" THEN LsQuotaMessage
  ELSE LsSaveErrorMessage

\* a due timer runs its callback: localStorage.setItem(key, newValue)
lsTimerFired(t, outcome) ==
  /\ t \in lsTimers
  /\ now >= t.deadline
  /\ lsTimers' = lsTimers \ {t}
  /\ lsStorage' = IF outcome = "ok" THEN <<t.value>> ELSE lsStorage
  /\ IF lsAlive
       THEN /\ lsSaveStatus' = lsFlushStatus(outcome)
            /\ lsError' = lsFlushError(outcome)
       ELSE UNCHANGED << lsSaveStatus, lsError >>
  /\ lsFlushes' = lsFlushes + 1
  /\ lastOp' = LsOp("lsTimerFired", outcome)
  /\ UNCHANGED << lsValue, lsTimeoutRef, lsPhase, lsLastSetAt, now, nextTimer,
                  budget >>
  /\ UNCHANGED docVars
  /\ UNCHANGED thVars

\* clear(): removeItem, then the state resets; the debounce timer is left alone
clear(removeItemThrows) ==
  /\ LsUserCall
  /\ lsStorage' = IF removeItemThrows THEN lsStorage ELSE <<>>
  /\ IF ~lsAlive
       THEN UNCHANGED << lsValue, lsSaveStatus, lsError >>
     ELSE IF removeItemThrows
       THEN /\ lsError' = LsClearErrorMessage
            /\ UNCHANGED << lsValue, lsSaveStatus >>
     ELSE /\ lsValue' = ""
          /\ lsSaveStatus' = "saved"
          /\ lsError' = Null
  /\ lastOp' = LsOp("clear", IF removeItemThrows THEN "caught" ELSE "ok")
  /\ UNCHANGED << lsTimeoutRef, lsTimers, lsPhase, lsLastSetAt, lsFlushes, now,
                  nextTimer >>
  /\ UNCHANGED docVars
  /\ UNCHANGED thVars

\* the cleanup effect
lsUnmountTimers(ts, ref) == IF ref # 0 THEN clearTimeout(ts, ref) ELSE ts

lsUnmount ==
  /\ lsPhase = "mounted"
  /\ lsPhase' = "unmounted"
  /\ lsTimers' = lsUnmountTimers(lsTimers, lsTimeoutRef)
  /\ lastOp' = LsOp("lsUnmount", "")
  /\ UNCHANGED << lsValue, lsSaveStatus, lsError, lsTimeoutRef, lsStorage,
                  lsLastSetAt, lsFlushes, now, nextTimer, budget >>
  /\ UNCHANGED docVars
  /\ UNCHANGED thVars

NextLS ==
  \/ \E b \in BOOLEAN : lsLoad(b)
  \/ \E v \in ValueInputs : setValue(v)
  \/ \E t \in lsTimers, o \in SetItemOutcomes : lsTimerFired(t, o)
  \/ \E b \in BOOLEAN : clear(b)
  \/ lsUnmount
  \/ Tick

\* useLocalStorage alone
InitLS ==
  /\ Constructed(FALSE)
  /\ storage = Absent
  /\ budget = MaxOps + 1
  /\ lsConstructed(TRUE)
  /\ thAbsent
  /\ lsStorage \in LsStoredValues

SpecLS == InitLS /\ [][NextLS]_vars

\* both hooks in one run, from empty storage
InitHooks ==
  /\ Constructed(TRUE)
  /\ storage = Absent
  /\ budget = MaxOps
  /\ lsConstructed(TRUE)
  /\ thAbsent
  /\ lsStorage = <<>>

\* every operation of both hooks on a storage that works; documents are
\* created with the default name and renamed to "\t N \n"
NextHooks ==
  \/ LoadDocuments(FALSE)
  \/ \E id \in CallIds : setActiveDocument(id)
  \/ \E e \in BOOLEAN : createDocument(<<>>, e)
  \/ \E id \in CallIds, e \in BOOLEAN : renameDocument(id, PaddedName, e)
  \/ \E id \in CallIds, e \in BOOLEAN : deleteDocument(id, e)
  \/ \E c \in ContentInputs, e \in BOOLEAN : updateDocumentContent(c, e)
  \/ Render
  \/ \E t \in timers : TimerFired(t, "ok")
  \/ Unmount
  \/ lsLoad(FALSE)
  \/ \E v \in ValueInputs : setValue(v)
  \/ \E t \in lsTimers : lsTimerFired(t, "ok")
  \/ clear(FALSE)
  \/ lsUnmount
  \/ Tick

SpecHooks == InitHooks /\ [][NextHooks]_vars

\* ---------------------------------------------------------------- useTheme
Themes == { "light", "dark" }
\* texts under the theme key: absent, a theme, the empty string, another text
ThStoredValues == { <<>>, <<"light">>, <<"dark">>, <<"">>, <<"blue">> }

\* `if (!stored)`: null and "" are falsy
thTruthy(stored) == stored # <<>> /\ stored # <<"">>

\* e.matches ? 'dark' : 'light'
themeOf(m) == IF m THEN "dark" ELSE "light"

ThOp(name, flags) ==
  [ op |-> name, id |-> NullId, rendered |-> NullId, pre |-> 0, left |-> 0,
    outcome |-> "", arg |-> flags ]

\* the useState initializer: the stored theme, else the system preference,
\* else the default
initialTheme(stored, getItemThrows, mediaOk, m, default) ==
  IF ~getItemThrows /\ stored \in { <<"light">>, <<"dark">> } THEN stored[1]
  ELSE IF mediaOk /\ m THEN "dark"
  ELSE default

\* localStorage.setItem(storageKey, theme) in a try block
persisted(stored, t, setItemThrows) == IF setItemThrows THEN stored ELSE << t >>

\* the two effects that depend on theme: the class of the document and the
\* stored theme
themeEffects(t, setItemThrows) ==
  /\ darkClass' = (t = "dark")
  /\ thStorage' = persisted(thStorage, t, setItemThrows)

\* useTheme after its first render, before its effects have run
InitTheme ==
  /\ Constructed(FALSE)
  /\ storage = Absent
  /\ budget = 0
  /\ lsConstructed(FALSE)
  /\ lsStorage = <<>>
  /\ defaultTheme \in Themes
  /\ darkClass \in BOOLEAN
  /\ thStorage \in ThStoredValues
  /\ matches \in BOOLEAN
  /\ matchMediaOk \in BOOLEAN
  /\ \E getItemThrows \in BOOLEAN :
        theme = initialTheme(thStorage, getItemThrows, matchMediaOk, matches,
                             defaultTheme)
  /\ renderedTheme = theme
  /\ thPhase = "rendered"
  /\ storedAtLoad = thStorage
  /\ userSet = FALSE

\* the effects of the first render, with the theme of that render: class,
\* stored theme, and the change listener (when matchMedia is there)
thMountEffects(setItemThrows) ==
  /\ thPhase = "rendered"
  /\ thPhase' = "mounted"
  /\ themeEffects(renderedTheme, setItemThrows)
  /\ lastOp' = ThOp("mountEffects", << setItemThrows >>)
  /\ UNCHANGED << theme, renderedTheme, defaultTheme, matches, matchMediaOk,
                  storedAtLoad, userSet, now, nextTimer, budget >>
  /\ UNCHANGED docVars
  /\ UNCHANGED lsVars

\* setTheme(t): the state setter queues the change; the setter of a hook
\* that is unmounted changes nothing
setTheme(t) == theme' = IF thPhase # "unmounted" THEN t ELSE theme

\* React renders after the event handler; the effects that depend on theme
\* run when theme differs from the theme of the render before
thRender(setItemThrows) ==
  /\ thPhase = "mounted"
  /\ theme # renderedTheme
  /\ renderedTheme' = theme
  /\ themeEffects(theme, setItemThrows)
  /\ UNCHANGED << theme, defaultTheme, matches, matchMediaOk, thPhase,
                  storedAtLoad, userSet, now, nextTimer, budget, lastOp >>
  /\ UNCHANGED docVars
  /\ UNCHANGED lsVars

\* a call of toggleTheme, setLightTheme or setDarkTheme, which the component
\* has from the first render on: what they share
thUserCall(name) ==
  /\ thPhase \in {"rendered", "mounted", "unmounted"}
  /\ userSet' = TRUE
  /\ lastOp' = ThOp(name, <<>>)
  /\ UNCHANGED << renderedTheme, defaultTheme, darkClass, thStorage, matches,
                  matchMediaOk, thPhase, storedAtLoad, now, nextTimer, budget >>
  /\ UNCHANGED docVars
  /\ UNCHANGED lsVars

toggleTheme ==
  /\ thUserCall("toggleTheme")
  /\ setTheme(IF theme = "light" THEN "dark" ELSE "light")

setLightTheme ==
  /\ thUserCall("setLightTheme")
  /\ setTheme("light")

setDarkTheme ==
  /\ thUserCall("setDarkTheme")
  /\ setTheme("dark")

\* a handleChange that never looks at the stored preference
appliesSignalAlways(stored, getItemThrows) == TRUE

\* whether handleChange calls setTheme
appliesSignal(stored, getItemThrows) == getItemThrows \/ ~thTruthy(stored)

\* the colour-scheme signal changes to m while the listener is subscribed;
\* the event is handled after the render of the handler before it
handleChange(m, getItemThrows) ==
  /\ thPhase = "mounted"
  /\ theme = renderedTheme
  /\ matchMediaOk
  /\ m # matches
  /\ matches' = m
  /\ IF appliesSignal(thStorage, getItemThrows)
       THEN setTheme(themeOf(m))
       ELSE UNCHANGED theme
  /\ lastOp' = ThOp("handleChange", << getItemThrows >>)
  /\ UNCHANGED << renderedTheme, defaultTheme, darkClass, thStorage,
                  matchMediaOk, thPhase, storedAtLoad, userSet, now, nextTimer,
                  budget >>
  /\ UNCHANGED docVars
  /\ UNCHANGED lsVars

\* the signal changes while no listener is subscribed: before the effects
\* have run or after the cleanup
signalUnheard(m) ==
  /\ thPhase \in {"rendered", "unmounted"}
  /\ matchMediaOk
  /\ m # matches
  /\ matches' = m
  /\ lastOp' = ThOp("signalUnheard", <<>>)
  /\ UNCHANGED << theme, renderedTheme, defaultTheme, darkClass, thStorage,
                  matchMediaOk, thPhase, storedAtLoad, userSet, now, nextTimer,
                  budget >>
  /\ UNCHANGED docVars
  /\ UNCHANGED lsVars

\* the cleanup of the listener effect
thUnmount ==
  /\ thPhase = "mounted"
  /\ theme = renderedTheme
  /\ thPhase' = "unmounted"
  /\ lastOp' = ThOp("thUnmount", <<>>)
  /\ UNCHANGED << theme, renderedTheme, defaultTheme, darkClass, thStorage,
                  matches, matchMediaOk, storedAtLoad, userSet, now, nextTimer,
                  budget >>
  /\ UNCHANGED docVars
  /\ UNCHANGED lsVars

NextTheme ==
  \/ \E b \in BOOLEAN : thMountEffects(b)
  \/ toggleTheme
  \/ setLightTheme
  \/ setDarkTheme
  \/ \E b \in BOOLEAN : thRender(b)
  \/ \E m, g \in BOOLEAN : handleChange(m, g)
  \/ \E m \in BOOLEAN : signalUnheard(m)
  \/ thUnmount

SpecTheme == InitTheme /\ [][NextTheme]_vars

\* ---------------------------------------------------------------- progress
\* calls are made up to MaxTime
LiveCall == now <= MaxTime

\* after MaxTime the clock runs on as Tick does, for a mounted and for an
\* unmounted hook alike, until every timer the last calls can arm is due
TickLate ==
  /\ phase # "init"
  /\ phase # "mounted" \/ Rendered
  /\ lsPhase # "init"
  /\ now >= MaxTime
  /\ now < MaxTime + DebounceMs
  /\ now' = now + 1
  /\ UNCHANGED << documents, activeDocumentId, renderedActiveId, updateQueued,
                  queue, status, error, debounceTimeoutRef, timers, storage,
                  phase, nextId, nextTimer, budget, lastOp, lastMutationAt,
                  flushes, burst >>
  /\ UNCHANGED lsVars
  /\ UNCHANGED thVars

\* useDocuments with the default name for new documents and "\t N \n" for
\* renamed ones
NextLive ==
  \/ \E b \in BOOLEAN : LoadDocuments(b)
  \/ \E id \in CallIds : LiveCall /\ setActiveDocument(id)
  \/ \E e \in BOOLEAN : LiveCall /\ createDocument(<<>>, e)
  \/ \E id \in CallIds, e \in BOOLEAN :
        LiveCall /\ renameDocument(id, PaddedName, e)
  \/ \E id \in CallIds, e \in BOOLEAN : LiveCall /\ deleteDocument(id, e)
  \/ \E c \in ContentInputs, e \in BOOLEAN :
        LiveCall /\ updateDocumentContent(c, e)
  \/ Render
  \/ \E t \in timers, o \in SetItemOutcomes : TimerFired(t, o)
  \/ Unmount
  \/ Tick
  \/ TickLate

\* React renders after a state change, the clock advances, and the event
\* loop runs the callback of a timer that is due
Fairness ==
  /\ WF_vars(Render)
  /\ WF_vars(Tick)
  /\ WF_vars(TickLate)
  /\ WF_vars(\E t \in timers, o \in SetItemOutcomes : TimerFired(t, o))

\* useDocuments constructed with nothing stored
InitLive ==
  /\ Constructed(TRUE)
  /\ storage = Absent
  /\ budget = MaxOps
  /\ lsConstructed(FALSE)
  /\ thAbsent
  /\ lsStorage = <<>>

SpecLive == InitLive /\ [][NextLive]_vars /\ Fairness

\* ---------------------------------------------------------------- claims

\* C1: once a createDocument or deleteDocument call on a loaded store (also
\* one loaded from "[]", whose collection is empty before the call) has
\* taken effect (its updater ran in the call, or the render after the call
\* has run it), the collection holds at least one document.
NonEmptyAfterCreateDelete ==
  ( /\ phase = "mounted"
    /\ lastOp.op \in {"createDocument", "deleteDocument"}
    /\ (lastOp.outcome = "ran" \/ Rendered) )
    => Len(documents) >= 1

\* C1 witness: deleteDocument was called on the empty collection of a loaded
\* store and left one document.
NonEmptyAfterCreateDeleteWitness ==
  /\ phase = "mounted"
  /\ Rendered
  /\ lastOp.op = "deleteDocument"
  /\ lastOp.pre = 0
  /\ Len(documents) = 1

\* C2 as claimed: once loaded and rendered, a non-empty collection holds the
\* document the active id names.
ActiveIdIsMember ==
  (phase \in {"mounted", "unmounted"} /\ Rendered /\ Len(documents) > 0)
    => activeDocumentId \in Ids(documents)

\* C3 as claimed: in the render after the load effect the collection holds a
\* document and the active id is not null, whatever was stored.
LoadedNonEmpty ==
  (lastOp.op = "load" /\ Rendered)
    => (Len(documents) >= 1 /\ activeDocumentId # NullId)

\* C4: when deleteDocument(id) removes the active document (the
\* activeDocumentId of the render the callback belongs to) and other
\* documents remain, then in the render that follows the call the active id
\* is the id of the first document of the resulting collection, a member of
\* it.
DeleteActiveSelectsFirst ==
  ( /\ phase = "mounted"
    /\ Rendered
    /\ lastOp.op = "deleteDocument"
    /\ lastOp.id = lastOp.rendered
    /\ lastOp.left < lastOp.pre
    /\ lastOp.left > 0 )
    => /\ Len(documents) = lastOp.left
       /\ activeDocumentId = documents[1].id
       /\ activeDocumentId \in Ids(documents)
       /\ lastOp.id \notin Ids(documents)

\* C4 witness: the active document was deleted, another one remains and is
\* active.
DeleteActiveSelectsFirstWitness ==
  /\ phase = "mounted"
  /\ Rendered
  /\ lastOp.op = "deleteDocument"
  /\ lastOp.id = lastOp.rendered
  /\ lastOp.left < lastOp.pre
  /\ lastOp.left > 0
  /\ activeDocumentId = documents[1].id

\* C5: deleteDocument(id) on a store whose only document has that id leaves
\* exactly one document: named 'Untitled Document', empty, with another id,
\* and active in the render that follows the call.
DeleteOnlyDocument ==
  ( /\ phase = "mounted"
    /\ Rendered
    /\ lastOp.op = "deleteDocument"
    /\ lastOp.pre = 1
    /\ lastOp.left = 0 )
    => /\ Len(documents) = 1
       /\ documents[1].name = DEFAULT_DOCUMENT_NAME
       /\ documents[1].content = ""
       /\ documents[1].id # lastOp.id
       /\ activeDocumentId = documents[1].id

\* C5 witness: the only document was deleted by an updater that ran in the
\* render, and a default document took its place.
DeleteOnlyDocumentWitness ==
  /\ phase = "mounted"
  /\ Rendered
  /\ lastOp.outcome = "queued"
  /\ lastOp.op = "deleteDocument"
  /\ lastOp.pre = 1
  /\ lastOp.left = 0
  /\ Len(documents) = 1
  /\ documents[1].name = DEFAULT_DOCUMENT_NAME

\* C6 as claimed: one debounce channel for all mutations.  No setItem call
\* happens before debounceMs has passed since the last mutation; the
\* mutations up to the last one get one write: at most one setItem call
\* between two mutations, at most one timer armed, and while the hook is
\* mounted the timer of the last mutation goes away only by firing; a
\* successful write stores the serialization of the in-memory collection as
\* it is when the timer fires.
DebounceOneWrite ==
  /\ flushes >= 1 => now >= lastMutationAt + DebounceMs
  /\ flushes <= 1
  /\ Cardinality(timers) <= 1
  /\ (phase = "mounted" /\ lastMutationAt >= 0 /\ timers = {}) => flushes = 1
  /\ (phase = "mounted" /\ lastOp.op = "timerFired" /\ lastOp.outcome = "ok"
        /\ flushes = 1)
       => storage = JSON_stringify(documents)

\* C7: the unmount leaves no timer of the hook armed, so a write that is
\* pending at the unmount never happens; after the unmount a timer is armed
\* only by a call of one of the hook's callbacks, in useDocuments and in
\* useLocalStorage.
PendingWriteDiesAtUnmount ==
  /\ [][ (phase = "mounted" /\ phase' = "unmounted") => timers' = {} ]_vars
  /\ [][ (lsPhase = "mounted" /\ lsPhase' = "unmounted") => lsTimers' = {} ]_vars
  /\ [][ (phase = "unmounted" /\ ~(timers' \subseteq timers))
         => /\ budget' = budget - 1
            /\ lastOp'.op \in {"createDocument", "renameDocument",
                               "deleteDocument", "updateDocumentContent"} ]_vars
  /\ [][ (lsPhase = "unmounted" /\ ~(lsTimers' \subseteq lsTimers))
         => /\ budget' = budget - 1
            /\ lastOp'.op = "setValue" ]_vars

\* C7 as claimed: once a hook is unmounted none of its timers is armed and
\* none of its timer callbacks runs, in useDocuments and in useLocalStorage.
NoWriteAfterUnmount ==
  /\ phase = "unmounted" => (timers = {} /\ lastOp.op # "timerFired")
  /\ lsPhase = "unmounted" => (lsTimers = {} /\ lastOp.op # "lsTimerFired")

\* C7 witness: both hooks were unmounted with a save pending, the deadlines
\* have passed, no timer is left and nothing was written.
PendingWriteDiesAtUnmountWitness ==
  /\ phase = "unmounted"
  /\ lastMutationAt >= 0
  /\ flushes = 0
  /\ now >= lastMutationAt + DebounceMs
  /\ timers = {}
  /\ storage = Absent
  /\ lsPhase = "unmounted"
  /\ lsLastSetAt >= 0
  /\ lsFlushes = 0
  /\ now >= lsLastSetAt + DebounceMs
  /\ lsTimers = {}
  /\ lsStorage = <<>>

\* C8: a timer callback whose setItem fails changes neither the documents
\* nor the active id and leaves no timer armed; while the status of the
\* mounted hook is 'error' no timer is armed, so nothing is written until
\* the next mutation.
FailedFlushKeepsMemory ==
  /\ [][ ( /\ flushes' = flushes + 1
           /\ lastOp'.op = "timerFired"
           /\ lastOp'.outcome # "ok" )
         => ( /\ documents' = documents
              /\ activeDocumentId' = activeDocumentId
              /\ queue' = queue
              /\ timers' = {} ) ]_vars
  /\ []((phase = "mounted" /\ status = "error") => (timers = {} /\ flushes = 1))

\* C8 witness: a write failed, the edited content is still in memory and not
\* in storage, and no timer is armed.
FailedFlushKeepsMemoryWitness ==
  /\ lastOp.op = "timerFired"
  /\ lastOp.outcome = "Error"
  /\ status = "error"
  /\ timers = {}
  /\ \E i \in 1..Len(documents) : documents[i].content = "x"
  /\ storage # JSON_stringify(documents)

\* C9 as claimed: from a state of the mounted hook with status 'error' every
\* step keeps the status 'error', except a successful flush.
ErrorUntilSuccessfulFlush ==
  [][ (phase = "mounted" /\ status = "error")
      => ( \/ status' = "error"
           \/ (flushes' = flushes + 1 /\ lastOp'.outcome = "ok") ) ]_vars

\* C9 amended: a failed flush sets the status 'error', and the status stays
\* 'error' until the next mutation (the next saveDocuments call), which sets
\* it to 'saving'.
ErrorUntilNextMutation ==
  /\ [][ ( /\ phase = "mounted"
           /\ flushes' = flushes + 1
           /\ lastOp'.op = "timerFired"
           /\ lastOp'.outcome # "ok" )
         => status' = "error" ]_vars
  /\ [][ (phase = "mounted" /\ status = "error")
         => IF nextTimer' # nextTimer THEN status' = "saving"
            ELSE status' = "error" ]_vars

\* C9 witness: setActiveDocument was called after a failed flush and the
\* status is still 'error'.
ErrorUntilNextMutationWitness ==
  /\ phase = "mounted"
  /\ status = "error"
  /\ lastOp.op = "setActiveDocument"
  /\ flushes = 1

\* C10: the outcome of the write decides status and error message of the
\* mounted hook: they are set in the step of the timer callback.
FlushOutcomeSetsStatus ==
  [][ ( /\ phase = "mounted"
        /\ flushes' = flushes + 1
        /\ lastOp'.op = "timerFired" )
      => CASE lastOp'.outcome = "ok" -> status' = "saved" /\ error' = Null
           [] lastOp'.outcome = "QuotaExceededError" ->
                status' = "error"
                /\ error' = "Storage is full. Please delete some documents."
           [] OTHER -> status' = "error" /\ error' = "Failed to save documents"
    ]_vars

\* C10 witness: a write failed with QuotaExceededError.
FlushOutcomeSetsStatusWitness ==
  /\ phase = "mounted"
  /\ lastOp.op = "timerFired"
  /\ lastOp.outcome = "QuotaExceededError"
  /\ flushes = 1
  /\ status = "error"
  /\ error = QuotaMessage

\* C11: once createDocument, deleteDocument, renameDocument with a name that
\* has a character other than white space, or updateDocumentContent called
\* with an active document has taken effect on the mounted hook (its updater
\* ran in the call, or the render after the call has run it), the status is
\* 'saving': the updater that changes the collection sets it.
MutationSetsSaving ==
  ( /\ phase = "mounted"
    /\ (lastOp.outcome = "ran" \/ (lastOp.outcome = "queued" /\ Rendered))
    /\ \/ lastOp.op \in {"createDocument", "deleteDocument"}
       \/ ( /\ lastOp.op = "renameDocument"
            /\ \E i \in 1..Len(lastOp.arg) : lastOp.arg[i] \notin WhiteSpace )
       \/ ( /\ lastOp.op = "updateDocumentContent"
            /\ lastOp.rendered # NullId ) )
    => status = "saving"

\* C11 witness: a document was renamed after a failed write (its message is
\* still set), and the status is 'saving' again.
MutationSetsSavingWitness ==
  /\ phase = "mounted"
  /\ lastOp.op = "renameDocument"
  /\ lastOp.arg = << "\t", " ", "N", " ", "\n" >>
  /\ error \in {"Storage is full. Please delete some documents.",
                "Failed to save documents"}
  /\ status = "saving"

\* C12: a renameDocument call whose newName has only white space (spaces,
\* tabs, line terminators) or nothing changes no document, nor the active
\* id, status, error, pending writes, waiting updates or storage.
BlankRenameIsNoOp ==
  [][ ( /\ budget' = budget - 1
        /\ lastOp'.op = "renameDocument"
        /\ \A i \in 1..Len(lastOp'.arg) : lastOp'.arg[i] \in WhiteSpace )
      => UNCHANGED << documents, queue, activeDocumentId, status, error,
                      timers, debounceTimeoutRef, storage >> ]_vars

\* C12 witness: renameDocument(id, " \t") was called for an existing document
\* while a write was pending; the only write ever scheduled is the earlier
\* one and the document still has a name.
BlankRenameIsNoOpWitness ==
  /\ phase = "mounted"
  /\ Rendered
  /\ lastOp.op = "renameDocument"
  /\ lastOp.arg = << " ", "\t" >>
  /\ \E i \in 1..Len(documents) :
        documents[i].id = lastOp.id /\ documents[i].name # <<>>
                                   /\ documents[i].name # << " ", "\t" >>
  /\ nextTimer = 1
  /\ Cardinality(timers) = 1

\* C13 as claimed: a renameDocument call whose id names no document changes
\* neither the documents, the active id, the status, the error nor the
\* pending writes, in the call or in the render that runs its updater.
UnknownIdRenameIsNoOp ==
  [][ ( /\ phase = "mounted"
        /\ \/ ( /\ budget' = budget - 1
                /\ lastOp'.op = "renameDocument"
                /\ lastOp'.id \notin Ids(Pending) )
           \/ ( /\ Len(queue) = 1
                /\ queue' = <<>>
                /\ queue[1].op = "renameDocument"
                /\ queue[1].id \notin Ids(documents) ) )
      => UNCHANGED << documents, activeDocumentId, status, error, timers,
                      debounceTimeoutRef >> ]_vars

\* C14: the updater of a renameDocument call with the id of a document and a
\* newName that has a character other than white space (run in the call, or
\* in the render after it) gives that document the name newName without its
\* leading and trailing white space (spaces, tabs, line terminators),
\* keeping its id and content; every other document, the order and the
\* length of the collection stay as they were.
RenameTrimsAndKeepsOthers ==
  [][ LET inCall == /\ budget' = budget - 1
                    /\ lastOp'.op = "renameDocument"
                    /\ lastOp'.outcome = "ran"
          inRender == /\ Len(queue) = 1
                      /\ queue' = <<>>
                      /\ queue[1].op = "renameDocument"
          id == IF inRender THEN queue[1].id ELSE lastOp'.id
          a == IF inRender THEN queue[1].arg ELSE lastOp'.arg
      IN ( /\ phase = "mounted"
           /\ inCall \/ inRender
           /\ id \in Ids(documents)
           /\ \E i \in 1..Len(a) : a[i] \notin WhiteSpace )
         => /\ Len(documents') = Len(documents)
            /\ \A i \in 1..Len(documents) :
                 IF documents[i].id = id
                   THEN LET n == documents'[i].name
                        IN /\ documents'[i].id = documents[i].id
                           /\ documents'[i].content = documents[i].content
                           /\ n # <<>>
                           /\ n[1] \notin WhiteSpace
                           /\ n[Len(n)] \notin WhiteSpace
                           /\ \E k \in 0..(Len(a) - Len(n)) :
                                /\ SubSeq(a, k + 1, k + Len(n)) = n
                                /\ \A j \in 1..Len(a) :
                                     (j <= k \/ j > k + Len(n))
                                       => a[j] \in WhiteSpace
                   ELSE documents'[i] = documents[i] ]_vars

\* C14 witness: a document created in this run was renamed with "\t N \n"
\* and is named "N"; the Welcome document next to it kept its name.
RenameTrimsAndKeepsOthersWitness ==
  /\ phase = "mounted"
  /\ lastOp.op = "renameDocument"
  /\ lastOp.arg = << "\t", " ", "N", " ", "\n" >>
  /\ \E i, j \in 1..Len(documents) :
        /\ i # j
        /\ documents[i].id = lastOp.id
        /\ documents[i].id \notin StoredIds
        /\ documents[i].name = << "N" >>
        /\ documents[j].name = WelcomeName

\* C15 as claimed: once createDocument called without a name, with the empty
\* name or with a name of white space only has taken effect, the document
\* it made is named 'Untitled Document'.
BlankNameGetsDefault ==
  ( /\ phase = "mounted"
    /\ lastOp.op = "createDocument"
    /\ (lastOp.outcome = "ran" \/ Rendered)
    /\ \/ lastOp.arg = <<>>
       \/ \A i \in 1..Len(lastOp.arg[1]) : lastOp.arg[1][i] \in WhiteSpace )
    => \A i \in 1..Len(documents) :
         documents[i].id = lastOp.id
           => documents[i].name = DEFAULT_DOCUMENT_NAME

\* C16: a createDocument call makes the new document the active one and
\* returns its id; its updater (run in the call, or in the render after it)
\* puts that one new document with empty content in front of the unchanged
\* previous documents and arms a write of the new collection.
CreatePrependsOne ==
  [][ LET inCall == /\ budget' = budget - 1
                    /\ lastOp'.op = "createDocument"
          inRender == /\ Len(queue) = 1
                      /\ queue' = <<>>
                      /\ queue[1].op = "createDocument"
          id == IF inRender THEN queue[1].id ELSE lastOp'.id
      IN /\ (phase = "mounted" /\ inCall)
           => /\ activeDocumentId' = lastOp'.id
              /\ lastOp'.id \notin Ids(Pending)
              /\ IF lastOp'.outcome = "ran"
                   THEN queue' = queue
                   ELSE /\ queue' = Append(queue, queue'[Len(queue')])
                        /\ queue'[Len(queue')].op = "createDocument"
                        /\ queue'[Len(queue')].id = lastOp'.id
         /\ ( /\ phase = "mounted"
              /\ (inCall /\ lastOp'.outcome = "ran") \/ inRender )
           => /\ Len(documents') = Len(documents) + 1
              /\ Tail(documents') = documents
              /\ documents'[1].content = ""
              /\ documents'[1].id = id
              /\ id \notin Ids(documents)
              /\ \E t \in timers' \ timers : t.docs = documents' ]_vars

\* C16 witness: createDocument was called on a collection of two documents;
\* the new, active document is first, followed by the two, and a write is
\* pending.
CreatePrependsOneWitness ==
  /\ phase = "mounted"
  /\ lastOp.op = "createDocument"
  /\ Len(documents) = 3
  /\ Tail(documents) = TwoDocs
  /\ documents[1].id = lastOp.id
  /\ activeDocumentId = lastOp.id
  /\ timers # {}

\* C17: an updateDocumentContent call made when the hook shows no active
\* document changes neither the documents, the status, the pending writes,
\* the waiting updates, the active id nor the error; made when it shows one,
\* it leaves the active id as it was, and its updater (run in the call, or
\* in the render after it) sets content and updatedAt of the documents with
\* that id and leaves every other document and the order as they were.
UpdateContentOnlyActive ==
  [][ LET inCall == /\ budget' = budget - 1
                    /\ lastOp'.op = "updateDocumentContent"
          inRender == /\ Len(queue) = 1
                      /\ queue' = <<>>
                      /\ queue[1].op = "updateDocumentContent"
          id == IF inRender THEN queue[1].id ELSE renderedActiveId
          content == IF inRender THEN queue[1].arg ELSE lastOp'.arg[1]
      IN /\ (phase = "mounted" /\ inCall)
           => IF renderedActiveId = NullId
                THEN UNCHANGED << documents, queue, status, timers,
                                  debounceTimeoutRef, activeDocumentId, error >>
                ELSE activeDocumentId' = activeDocumentId
         /\ ( /\ phase = "mounted"
              /\ \/ (inCall /\ renderedActiveId # NullId
                            /\ lastOp'.outcome = "ran")
                 \/ inRender )
           => /\ Len(documents') = Len(documents)
              /\ \A i \in 1..Len(documents) :
                   IF documents[i].id = id
                     THEN documents'[i] =
                            [ id |-> documents[i].id,
                              name |-> documents[i].name,
                              content |-> content,
                              updatedAt |-> now ]
                     ELSE documents'[i] = documents[i]
              /\ activeDocumentId' = activeDocumentId ]_vars

\* C17 witness: of two documents the active one received the content, the
\* other is still empty and as old as it was.
UpdateContentOnlyActiveWitness ==
  /\ phase = "mounted"
  /\ lastOp.op = "updateDocumentContent"
  /\ lastOp.arg = << "x" >>
  /\ Len(documents) = 2
  /\ \E i, j \in 1..2 :
        /\ documents[i].id = lastOp.rendered
        /\ documents[i].id = activeDocumentId
        /\ documents[i].content = "x"
        /\ documents[j].content = ""
        /\ documents[j].updatedAt < documents[i].updatedAt

\* C18: a setActiveDocument call sets the active id and changes neither the
\* documents, the waiting updates, the status, the error, the pending writes
\* nor the stored snapshot; and what is stored, or waits to be stored, is an
\* array of documents (id, name, content, updatedAt) without the selection.
SetActiveIsPureSelection ==
  /\ [][ ( /\ budget' = budget - 1
           /\ phase = "mounted"
           /\ lastOp'.op = "setActiveDocument" )
         => /\ activeDocumentId' = lastOp'.id
            /\ UNCHANGED << documents, queue, status, error, timers,
                            debounceTimeoutRef, storage >> ]_vars
  /\ []( /\ storage.kind = "json" =>
             /\ DOMAIN storage = {"kind", "value"}
             /\ \A i \in 1..Len(storage.value) :
                  DOMAIN storage.value[i] = {"id", "name", "content", "updatedAt"}
         /\ \A t \in timers : \A i \in 1..Len(t.docs) :
              DOMAIN t.docs[i] = {"id", "name", "content", "updatedAt"} )

\* C18 witness: another document was selected while a write was pending;
\* that write is still the only one scheduled.
SetActiveIsPureSelectionWitness ==
  /\ phase = "mounted"
  /\ lastOp.op = "setActiveDocument"
  /\ lastOp.id \in Ids(documents)
  /\ lastOp.id # lastOp.rendered
  /\ activeDocumentId = lastOp.id
  /\ status = "saving"
  /\ nextTimer = 1
  /\ Cardinality(timers) = 1

\* C19: the mount effect that reads no stored snapshot sets exactly one
\* document named 'Welcome' and makes it active, and touches neither
\* storage, timers nor status; and as long as no mutation has scheduled a
\* write, no timer is armed, nothing was written and the status is 'saved'.
NoSnapshotBootstrap ==
  /\ [][ ( /\ phase = "init"
           /\ phase' = "mounted"
           /\ storage = [kind |-> "null"]
           /\ lastOp'.arg = << FALSE >> )
         => LET set == IF queue = <<>> THEN documents'
                       ELSE queue'[Len(queue')].arg
            IN /\ Len(set) = 1
               /\ set[1].name = << "W", "e", "l", "c", "o", "m", "e" >>
               /\ activeDocumentId' = set[1].id
               /\ error' = Null
               /\ UNCHANGED << storage, timers, debounceTimeoutRef, status >>
     ]_vars
  /\ []( (phase \in {"mounted", "unmounted"} /\ lastMutationAt = -1)
           => /\ timers = {}
              /\ debounceTimeoutRef = 0
              /\ status = "saved"
              /\ flushes = 0
              /\ lastOp.op # "timerFired" )

\* C19 witness: nothing was stored, the Welcome document was created, and
\* after the debounce delay has passed there is still no timer and nothing
\* stored.
NoSnapshotBootstrapWitness ==
  /\ lastOp.op = "load"
  /\ lastOp.outcome = "read"
  /\ storage = Absent
  /\ Len(documents) = 1
  /\ documents[1].name = WelcomeName
  /\ activeDocumentId = documents[1].id
  /\ status = "saved"
  /\ timers = {}
  /\ now > 1 + DebounceMs

\* C20: a mount effect whose storage read threw, or that read text
\* JSON.parse rejects, sets exactly one document, makes it active, sets the
\* error 'Failed to load documents', and the hook is mounted.
LoadFailureFallsBack ==
  [][ ( /\ phase = "init"
        /\ lastOp'.op = "load"
        /\ (lastOp'.arg = << TRUE >> \/ storage = [kind |-> "garbage"]) )
      => LET set == IF queue = <<>> THEN documents'
                    ELSE queue'[Len(queue')].arg
         IN /\ Len(set) = 1
            /\ activeDocumentId' = set[1].id
            /\ error' = "Failed to load documents"
            /\ phase' = "mounted" ]_vars

\* C20 witness: the stored text was read but could not be parsed; the
\* fallback document is the active one and the error is set.
LoadFailureFallsBackWitness ==
  /\ lastOp.op = "load"
  /\ lastOp.arg = << FALSE >>
  /\ storage = Garbage
  /\ Rendered
  /\ Len(documents) = 1
  /\ activeDocumentId = documents[1].id
  /\ error = LoadErrorMessage

\* C21 as claimed: after a mount effect that read text JSON.parse rejects,
\* the one document it created has a name other than 'Welcome', the name of
\* the document created when nothing is stored.
FallbackNameNotWelcome ==
  ( /\ lastOp.op = "load"
    /\ lastOp.arg = << FALSE >>
    /\ storage = [kind |-> "garbage"]
    /\ Len(documents) = 1 )
    => documents[1].name # << "W", "e", "l", "c", "o", "m", "e" >>

\* C22: a mount effect that parsed a stored array of at least one document
\* sets that array as the documents and makes active the first document of
\* the array among those with the greatest updatedAt.
LoadSelectsFirstMostRecent ==
  [][ ( /\ phase = "init"
        /\ lastOp'.op = "load"
        /\ lastOp'.arg = << FALSE >>
        /\ storage.kind = "json"
        /\ Len(storage.value) >= 1 )
      => LET set == IF queue = <<>> THEN documents'
                    ELSE queue'[Len(queue')].arg
         IN /\ set = storage.value
            /\ \E i \in 1..Len(set) :
                 /\ activeDocumentId' = set[i].id
                 /\ \A j \in 1..Len(set) : set[j].updatedAt <= set[i].updatedAt
                 /\ \A j \in 1..(i - 1) : set[j].updatedAt < set[i].updatedAt
    ]_vars

\* C22 witness: two stored documents with different ids are equally
\* recent, and the first of them is active.
LoadSelectsFirstMostRecentWitness ==
  /\ lastOp.op = "load"
  /\ storage.kind = "json"
  /\ Rendered
  /\ Len(documents) = 2
  /\ documents[1].id # documents[2].id
  /\ documents[1].updatedAt = documents[2].updatedAt
  /\ activeDocumentId = documents[1].id

\* C23 as claimed: no two documents of the collection have the same id.
UniqueIds ==
  \A i, j \in 1..Len(documents) :
    i # j => documents[i].id # documents[j].id

\* C24 as claimed: the updater of a renameDocument or updateDocumentContent
\* call (run in the call, or in the render after it) lowers the updatedAt
\* of no document.
UpdatedAtNeverDecreases ==
  [][ ( \/ ( /\ budget' = budget - 1
             /\ lastOp'.op \in {"renameDocument", "updateDocumentContent"} )
        \/ ( /\ Len(queue) = 1
             /\ queue' = <<>>
             /\ queue[1].op \in {"renameDocument", "updateDocumentContent"} ) )
      => /\ Len(documents') = Len(documents)
         /\ \A i \in 1..Len(documents) :
              documents'[i].updatedAt >= documents[i].updatedAt ]_vars

\* C25 as claimed: right after a clear() of the mounted useLocalStorage that
\* succeeded, value is '', saveStatus is 'saved' and the key is absent; and
\* the next step, made before any further setValue, leaves the key absent.
ClearKeepsKeyAbsent ==
  [][ (lsPhase = "mounted" /\ lastOp.op = "clear" /\ lastOp.outcome = "ok")
      => /\ lsValue = ""
         /\ lsSaveStatus = "saved"
         /\ lsStorage = <<>>
         /\ lsStorage' = <<>> ]_vars

\* C26 as claimed: when no theme was stored as useTheme was constructed and
\* neither toggleTheme, setLightTheme nor setDarkTheme was called since, a
\* change of the colour-scheme signal heard by the mounted hook sets the
\* theme to dark when the signal matches dark and to light otherwise.
SignalFollowedWhenUnset ==
  [][ ( /\ thPhase = "mounted"
        /\ matchMediaOk
        /\ matches' # matches
        /\ storedAtLoad \notin { <<"light">>, <<"dark">> }
        /\ ~userSet )
      => theme' = (IF matches' THEN "dark" ELSE "light") ]_vars

\* C27 as claimed: while a theme is stored, the theme changes only in a
\* step of toggleTheme, setLightTheme or setDarkTheme.
StoredPreferenceAlwaysWins ==
  [][ ( /\ thStorage \in { <<"light">>, <<"dark">> }
        /\ theme' # theme )
      => lastOp'.op \in {"toggleTheme", "setLightTheme", "setDarkTheme"} ]_vars

\* C27: while a theme is stored, the theme changes only in a step of
\* toggleTheme, setLightTheme or setDarkTheme, or in a handleChange whose
\* read of the stored preference threw.
StoredPreferenceWins ==
  [][ ( /\ thStorage \in { <<"light">>, <<"dark">> }
        /\ theme' # theme )
      => \/ lastOp'.op \in {"toggleTheme", "setLightTheme", "setDarkTheme"}
         \/ ( /\ lastOp'.op = "handleChange"
              /\ lastOp'.arg[1] ) ]_vars

\* C27 witness: 'light' was stored at load, the signal changed to dark, the
\* preference was read, and the theme is still light.
StoredPreferenceWinsWitness ==
  /\ lastOp.op = "handleChange"
  /\ ~lastOp.arg[1]
  /\ storedAtLoad = << "light" >>
  /\ thStorage = << "light" >>
  /\ matches
  /\ theme = "light"
  /\ ~userSet

\* C28 as claimed: an operation uses the active id set by the call before
\* it, rendered or not: once updateDocumentContent(c) has taken effect the
\* document that is active has the content c, and in the render after
\* deleteDocument(id) the active id is not the deleted id.
CallOrderOnCurrentState ==
  /\ ( /\ phase = "mounted"
       /\ lastOp.op = "updateDocumentContent"
       /\ lastOp.rendered # NullId
       /\ (lastOp.outcome = "ran" \/ Rendered)
       /\ activeDocumentId \in Ids(documents) )
       => \E i \in 1..Len(documents) :
            /\ documents[i].id = activeDocumentId
            /\ documents[i].content = lastOp.arg[1]
  /\ (phase = "mounted" /\ Rendered /\ lastOp.op = "deleteDocument")
       => activeDocumentId # lastOp.id

\* C29: while useDocuments is mounted, the status is 'saving' exactly when
\* a debounced write is pending.
SavingIffTimerPending ==
  phase = "mounted" => (status = "saving" <=> timers # {})

\* C29 witness: two mutations were made within one debounce delay; one
\* write is pending and the status is 'saving'.
SavingIffTimerPendingWitness ==
  /\ phase = "mounted"
  /\ burst = 2
  /\ status = "saving"
  /\ Cardinality(timers) = 1

\* C30 as claimed: a mounted store in status 'saving' reaches status 'saved'
\* or 'error' unless it is unmounted first; and whenever a mounted store
\* that was mutated is in status 'saved', the stored snapshot is the JSON
\* text of the whole collection in memory.
EventuallyFlushed ==
  /\ (phase = "mounted" /\ status = "saving")
       ~> (status \in {"saved", "error"} \/ phase = "unmounted")
  /\ []( (phase = "mounted" /\ status = "saved" /\ lastMutationAt >= 0)
           => storage = [kind |-> "json", value |-> documents] )

====
